---- MODULE Spec2Model ----
(***************************************************************************)
(* DriveThroughAssistant (drive_through_assistant.py): the order-state     *)
(* update loop.  One assistant instance owns api_key, model, menu,         *)
(* current_order and history; process_user_message, calculate_total and    *)
(* clear_order are its operations.  The remote chat-completion call is the *)
(* only input besides the user's utterance; what the HTTP exchange does    *)
(* (error, status, body, reply text) is chosen nondeterministically.       *)
(*                                                                         *)
(* Python values are tagged records [kind, val] so that values of          *)
(* different Python types can sit in one dict or list.  A dict is a        *)
(* function from its keys; a list is a sequence.  A reply text is a        *)
(* sequence of tokens: the fence literals the code strips, whitespace,     *)
(* the text of one well-formed JSON value, or prose that is not JSON.      *)
(***************************************************************************)
EXTENDS Integers, Sequences, FiniteSets, TLC

VARIABLES
    api_key,        \* self.api_key
    model,          \* self.model
    menu,           \* self.menu: item name -> unit price
    current_order,  \* self.current_order: item name -> quantity
    history,        \* self.history: list of {role, content}
    op,             \* the operation that ran last
    utterance,      \* the user_input it was given ("" when it takes none)
    pre,            \* the instance's fields when that operation was entered
    remote,         \* what the HTTP exchange of that operation did
    messages,       \* the message list that operation sent (local `messages`)
    ret,            \* what that operation returned or raised
    turns           \* process_user_message calls since construction or clear

vars == <<api_key, model, menu, current_order, history,
          op, utterance, pre, remote, messages, ret, turns>>

\* A turn is explored while history has room for its two entries.
MaxHistory == 6

-----------------------------------------------------------------------------
(* Python / JSON values *)

PyNone == [kind |-> "none", val |-> 0]
JNum(n) == [kind |-> "num", val |-> n]
JStr(s) == [kind |-> "str", val |-> s]
JBool(b) == [kind |-> "bool", val |-> b]
JList(s) == [kind |-> "list", val |-> s]
JObj(f) == [kind |-> "obj", val |-> f]

\* {} : the dict with no keys
EmptyDict == [k \in {} |-> PyNone]

isinstance_dict(v) == v.kind = "obj"

-----------------------------------------------------------------------------
(* The menu, the utterances and the replies explored *)

DEFAULT_MENU == ("Big Mac" :> 5) @@ ("Large Fry" :> 3) @@ ("Coke" :> 2)

\* a custom menu (st.session_state["custom_menu"]) with a free item
CustomMenu == ("Coke" :> 2) @@ ("Water" :> 0)

Menus == {DEFAULT_MENU, CustomMenu}

DEFAULT_MODEL == "meta-llama/llama-3.2-3b-instruct:free"

Utterances == {"two big macs and a coke", "and a pizza"}

\* `order` objects a reply may declare: menu items, a non-menu item (Pizza),
\* zero and negative quantities, and the empty order.
ReplyOrders ==
    { EmptyDict,
      ("Big Mac" :> JNum(2)) @@ ("Pizza" :> JNum(1)),
      ("Big Mac" :> JNum(2)) @@ ("Coke" :> JNum(1)),
      ("Coke" :> JNum(0)) @@ ("Large Fry" :> JNum(-1)) }

\* JSON mappings with an `order` key whose value is a mapping
WrappedReplies ==
    { JObj(("message" :> JStr("Added to your order")) @@ ("order" :> JObj(o))) :
          o \in ReplyOrders }
    \cup { JObj(("order" :> JObj(("Big Mac" :> JNum(1))))) }

\* JSON mappings without an `order` key (the older reply format)
BareReplies ==
    { JObj(o) : o \in {("Big Mac" :> JNum(1)),
                       ("Coke" :> JNum(2)) @@ ("Pizza" :> JNum(1))} }
    \cup { JObj(("message" :> JStr("Added to your order")) @@ ("Coke" :> JNum(1))) }

\* JSON values that are no mapping
NonMappingReplies ==
    { JList(<<JNum(1)>>), JNum(7), JStr("Big Mac"), JBool(TRUE), PyNone }

\* JSON mappings whose `order` value is no mapping
BadOrderReplies ==
    { JObj(("message" :> JStr("Added to your order")) @@ ("order" :> JList(<<>>))),
      JObj(("order" :> PyNone)) }

JsonValues == WrappedReplies \cup BareReplies \cup NonMappingReplies \cup BadOrderReplies

(* tokens of a reply text *)
FenceJson == [kind |-> "fence_json", val |-> PyNone]   \* the literal ```json
Fence == [kind |-> "fence", val |-> PyNone]            \* the literal ```
Ws == [kind |-> "ws", val |-> PyNone]                  \* blanks, line breaks
Prose == [kind |-> "prose", val |-> PyNone]            \* "Sure, I added that!"
Json(v) == [kind |-> "json", val |-> v]                \* json.dumps(v)

ReplyTexts ==
    { <<Json(v)>> : v \in JsonValues }
    \cup { <<FenceJson, Ws, Json(JObj(("message" :> JStr("Added to your order"))
                                        @@ ("order" :> JObj(EmptyDict)))), Ws, Fence>>,
           <<Fence, Ws, Json(JObj(("Big Mac" :> JNum(1)))), Ws, Fence, Ws>>,
           <<Prose>>,
           << >>,
           <<Prose, Ws, FenceJson, Ws, Json(JObj(EmptyDict)), Ws, Fence>> }

\* what requests.post, raise_for_status and response.json() may do
HttpOutcomes ==
    { [kind |-> k, content |-> PyNone] :
          k \in {"transport", "timeout", "status", "no_choices"} }
    \cup { [kind |-> "ok", content |-> JStr(t)] : t \in ReplyTexts }
    \cup { [kind |-> "ok", content |-> PyNone] }

NoCall == [kind |-> "none", content |-> PyNone]

-----------------------------------------------------------------------------
(* get_response_from_messages_openrouter *)

\* requests.post / raise_for_status / response.json() raise a
\* RequestException, which the except clause turns into Exception; the
\* ValueError of the else branch is no RequestException and passes through.
get_response_from_messages_openrouter(http) ==
    CASE http.kind \in {"transport", "timeout", "status"} ->
             [raised |-> TRUE, exc |-> "Exception", text |-> PyNone]
      [] http.kind = "no_choices" ->
             [raised |-> TRUE, exc |-> "ValueError", text |-> PyNone]
      [] OTHER ->
             [raised |-> FALSE, exc |-> "", text |-> http.content]

-----------------------------------------------------------------------------
(* DriveThroughAssistant *)

Self == [api_key |-> api_key, model |-> model, menu |-> menu,
         current_order |-> current_order, history |-> history]

\* __init__
Construct(key, mdl, mn) ==
    [api_key |-> key, model |-> mdl, menu |-> mn,
     current_order |-> EmptyDict, history |-> << >>]

\* The prompt embeds json.dumps(self.menu) and json.dumps(self.current_order);
\* the rest of its text is fixed.
get_system_prompt(self) ==
    [kind |-> "prompt", val |-> [menu |-> self.menu, order |-> self.current_order]]

\* self.history[-3:]
LastThree(h) ==
    IF Len(h) <= 3 THEN h ELSE SubSeq(h, Len(h) - 2, Len(h))

\* messages = [system prompt]; messages.extend(self.history[-3:])
BuildMessages(self) ==
    <<[role |-> "system", content |-> get_system_prompt(self)]>>
        \o LastThree(self.history)

\* str.strip(): drop the whitespace at both ends
RECURSIVE LStrip(_)
LStrip(t) ==
    IF t # << >> /\ Head(t).kind = "ws" THEN LStrip(Tail(t)) ELSE t

RECURSIVE RStrip(_)
RStrip(t) ==
    IF t # << >> /\ t[Len(t)].kind = "ws" THEN RStrip(SubSeq(t, 1, Len(t) - 1)) ELSE t

IsFence(tok) == tok.kind \in {"fence_json", "fence"}

\* response_text.replace("```json", "").replace("```", "").strip()
CleanText(t) ==
    RStrip(LStrip(SelectSeq(t, LAMBDA tok : ~IsFence(tok))))

\* json.loads: one JSON value and nothing else, or JSONDecodeError
json_loads(t) ==
    IF Len(t) = 1 /\ t[1].kind = "json"
    THEN [ok |-> TRUE, value |-> t[1].val]
    ELSE [ok |-> FALSE, value |-> PyNone]

DefaultMessage == JStr("Order updated.")
ParseApology == JStr("Sorry, I had trouble processing that. Please try again.")
ErrorApology == JStr("Sorry, I encountered an error. Please try again.")

\* ai_message after the isinstance branch
ExtractMessage(response_data) ==
    IF isinstance_dict(response_data) /\ "message" \in DOMAIN response_data.val
    THEN response_data.val["message"]
    ELSE DefaultMessage

\* ExtractOrder with a non-mapping reply read as an empty order
ExtractOrderNonDictEmpty(response_data) ==
    IF isinstance_dict(response_data)
    THEN IF "order" \in DOMAIN response_data.val
         THEN response_data.val["order"]
         ELSE response_data
    ELSE JObj(EmptyDict)

\* ExtractOrder without the fallback for a mapping that has no `order` key
ExtractOrderNoFallback(response_data) ==
    IF isinstance_dict(response_data)
    THEN IF "order" \in DOMAIN response_data.val
         THEN response_data.val["order"]
         ELSE JObj(EmptyDict)
    ELSE response_data

\* new_order_state after the isinstance branch
ExtractOrder(response_data) ==
    IF isinstance_dict(response_data)
    THEN IF "order" \in DOMAIN response_data.val
         THEN response_data.val["order"]
         ELSE response_data
    ELSE response_data

\* ValidateOrder without the `if k in self.menu` filter
ValidateOrderNoFilter(items, mn) ==
    [k \in DOMAIN items |-> items[k]]

\* {k: v for k, v in new_order_state.items() if k in self.menu}
ValidateOrder(items, mn) ==
    [k \in {k \in DOMAIN items : k \in DOMAIN mn} |-> items[k]]

AssistantEntry(msg) == [role |-> "assistant", content |-> msg]

Returned(order, msg) ==
    [kind |-> "return", order |-> order, message |-> msg, exc |-> "", total |-> 0]

Raised(exc) ==
    [kind |-> "raise", order |-> EmptyDict, message |-> PyNone, exc |-> exc, total |-> 0]

\* OnSuccess merging the new order into the old one instead of replacing it
OnSuccessMerge(self, validated_order, ai_message) ==
    [self |-> [self EXCEPT !.current_order = validated_order @@ @,
                           !.history = Append(@, AssistantEntry(ai_message))],
     ret |-> Returned(validated_order @@ self.current_order, ai_message)]

\* the end of the try block: install the order, log the reply, return
OnSuccess(self, validated_order, ai_message) ==
    [self |-> [self EXCEPT !.current_order = validated_order,
                           !.history = Append(@, AssistantEntry(ai_message))],
     ret |-> Returned(validated_order, ai_message)]

\* OnJSONDecodeError answering with the other handler's apology
OnJSONDecodeErrorOtherApology(self) ==
    [self |-> [self EXCEPT !.history = Append(@, AssistantEntry(ErrorApology))],
     ret |-> Returned(self.current_order, ErrorApology)]

\* except json.JSONDecodeError
OnJSONDecodeError(self) ==
    [self |-> [self EXCEPT !.history = Append(@, AssistantEntry(ParseApology))],
     ret |-> Returned(self.current_order, ParseApology)]

\* except Exception
OnException(self) ==
    [self |-> [self EXCEPT !.history = Append(@, AssistantEntry(ErrorApology))],
     ret |-> Returned(self.current_order, ErrorApology)]

\* step 4, the try statement.  None.replace and <non-dict>.items() raise
\* AttributeError, which the last except clause catches.
UpdateState(self, response_text) ==
    IF response_text.kind # "str" THEN OnException(self)
    ELSE LET parsed == json_loads(CleanText(response_text.val))
         IN IF ~parsed.ok THEN OnJSONDecodeError(self)
            ELSE LET ai_message == ExtractMessage(parsed.value)
                     new_order_state == ExtractOrder(parsed.value)
                 IN IF ~isinstance_dict(new_order_state) THEN OnException(self)
                    ELSE OnSuccess(self,
                                   ValidateOrder(new_order_state.val, self.menu),
                                   ai_message)

\* self.history.append({"role": "user", "content": user_input})
AppendUser(self, user_input) ==
    [self EXCEPT !.history = Append(@, [role |-> "user", content |-> JStr(user_input)])]

\* The remote call stands before the try statement: what it raises leaves
\* process_user_message uncaught.
process_user_message(self, user_input, http) ==
    LET s1 == AppendUser(self, user_input)
        msgs == BuildMessages(s1)
        resp == get_response_from_messages_openrouter(http)
    IN IF resp.raised
       THEN [self |-> s1, messages |-> msgs, ret |-> Raised(resp.exc)]
       ELSE LET r == UpdateState(s1, resp.text)
            IN [self |-> r.self, messages |-> msgs, ret |-> r.ret]

\* for item, qty in self.current_order.items(), in the order `iter`
RECURSIVE TotalLoop(_, _, _)
TotalLoop(self, iter, total) ==
    IF iter = << >> THEN total
    ELSE LET item == Head(iter)
             qty == self.current_order[item]
             price == IF item \in DOMAIN self.menu THEN self.menu[item] ELSE 0
         IN TotalLoop(self, Tail(iter), total + price * qty.val)

\* calculate_total with `total = price * qty` in place of `total += price * qty`
calculate_total_overwrite(self, iter) ==
    IF iter = << >> THEN 0
    ELSE LET item == iter[Len(iter)]
             qty == self.current_order[item]
             price == IF item \in DOMAIN self.menu THEN self.menu[item] ELSE 0
         IN price * qty.val

calculate_total(self, iter) == TotalLoop(self, iter, 0)
\* clear_order that forgets to reset the history
clear_order_keeps_history(self) ==
    [self EXCEPT !.current_order = EmptyDict]

clear_order(self) ==
    [self EXCEPT !.current_order = EmptyDict, !.history = << >>]

\* the orders in which a dict with key set S can be iterated
IterationOrders(S) ==
    { s \in [1..Cardinality(S) -> S] : \A i, j \in DOMAIN s : s[i] = s[j] => i = j }

-----------------------------------------------------------------------------
(* The state machine *)

NoRet == [kind |-> "none", order |-> EmptyDict, message |-> PyNone, exc |-> "", total |-> 0]

Install(self) ==
    /\ api_key' = self.api_key
    /\ model' = self.model
    /\ menu' = self.menu
    /\ current_order' = self.current_order
    /\ history' = self.history

Init ==
    /\ \E mn \in Menus :
          /\ api_key = "sk-or-key"
          /\ model = DEFAULT_MODEL
          /\ menu = mn
          /\ current_order = Construct("sk-or-key", DEFAULT_MODEL, mn).current_order
          /\ history = Construct("sk-or-key", DEFAULT_MODEL, mn).history
    /\ op = "__init__"
    /\ utterance = ""
    /\ pre = Self
    /\ remote = NoCall
    /\ messages = << >>
    /\ ret = NoRet
    /\ turns = 0

ProcessUserMessage(user_input, http) ==
    /\ Len(history) + 2 <= MaxHistory
    /\ LET r == process_user_message(Self, user_input, http)
       IN /\ Install(r.self)
          /\ messages' = r.messages
          /\ ret' = r.ret
    /\ op' = "process_user_message"
    /\ utterance' = user_input
    /\ pre' = Self
    /\ remote' = http
    /\ turns' = turns + 1

CalculateTotal ==
    /\ \E iter \in IterationOrders(DOMAIN current_order) :
          ret' = [NoRet EXCEPT !.kind = "return", !.total = calculate_total(Self, iter)]
    /\ op' = "calculate_total"
    /\ utterance' = ""
    /\ pre' = Self
    /\ remote' = NoCall
    /\ messages' = << >>
    /\ UNCHANGED <<api_key, model, menu, current_order, history, turns>>

ClearOrder ==
    /\ Install(clear_order(Self))
    /\ op' = "clear_order"
    /\ utterance' = ""
    /\ pre' = Self
    /\ remote' = NoCall
    /\ messages' = << >>
    /\ ret' = NoRet
    /\ turns' = 0

Next ==
    \/ \E user_input \in Utterances, http \in HttpOutcomes :
          ProcessUserMessage(user_input, http)
    \/ CalculateTotal
    \/ ClearOrder

Spec == Init /\ [][Next]_vars

-----------------------------------------------------------------------------
(* calculate_total as a function of its inputs: any order, any menu *)

\* The largest quantity explored.
MaxQty == 2

TotalItems == {"Big Mac", "Coke", "Pizza"}

\* every order over TotalItems with quantities -1 .. MaxQty
TotalOrders ==
    UNION { [S -> {JNum(q) : q \in -1..MaxQty}] : S \in SUBSET TotalItems }

InitTotal ==
    /\ api_key = "sk-or-key"
    /\ model = DEFAULT_MODEL
    /\ menu \in Menus
    /\ current_order \in TotalOrders
    /\ history = << >>
    /\ op = "__init__"
    /\ utterance = ""
    /\ pre = Self
    /\ remote = NoCall
    /\ messages = << >>
    /\ ret = NoRet
    /\ turns = 0

NextTotal == CalculateTotal

SpecTotal == InitTotal /\ [][NextTotal]_vars

-----------------------------------------------------------------------------
(* What a turn's reply says, read off the recorded HTTP exchange *)

IsTurn == op = "process_user_message"

GotText == remote.kind = "ok" /\ remote.content.kind = "str"

Reply == json_loads(CleanText(remote.content.val))

ReplyIsJson == GotText /\ Reply.ok

\* the order the reply declares: its `order` member, else the reply itself
DeclaredOrder ==
    IF Reply.value.kind = "obj" /\ "order" \in DOMAIN Reply.value.val
    THEN Reply.value.val["order"]
    ELSE Reply.value

TurnSucceeded == ReplyIsJson /\ DeclaredOrder.kind = "obj"

MenuFiltered(o) == [k \in (DOMAIN o) \cap (DOMAIN menu) |-> o[k]]

LastEntry == history[Len(history)]

\* history as the request saw it: the old history and the new user entry
HistoryAtRequest == SubSeq(history, 1, Len(pre.history) + 1)

Min(a, b) == IF a <= b THEN a ELSE b

-----------------------------------------------------------------------------
(* The claims *)

\* C1: in every reachable state every key of current_order is a key of menu,
\* whatever the model replied.
C1_OrderKeysInMenu ==
    DOMAIN current_order \subseteq DOMAIN menu

\* a turn whose reply declared Big Mac and Pizza, and only Big Mac was kept
C1_Witness ==
    /\ IsTurn /\ TurnSucceeded
    /\ "Pizza" \in DOMAIN DeclaredOrder.val
    /\ menu = DEFAULT_MENU
    /\ current_order = ("Big Mac" :> JNum(2))

\* C2: a turn either replaces current_order by the menu-filtered order the
\* reply declares, or (remote failure, parse failure, any other processing
\* failure) leaves current_order as it was before the turn.
C2_ReplaceOrKeep ==
    IsTurn =>
        IF TurnSucceeded
        THEN current_order = MenuFiltered(DeclaredOrder.val)
        ELSE current_order = pre.current_order

\* a remote failure met with a non-empty order
C2_Witness ==
    /\ IsTurn /\ ret.kind = "raise"
    /\ pre.current_order # EmptyDict
    /\ current_order = pre.current_order

\* C3: every turn, failed or not, lengthens history by exactly two entries:
\* the user entry with the utterance, then an assistant entry with the
\* display message or an apology.
C3_HistoryGrowsByTwo ==
    IsTurn =>
        /\ Len(history) = Len(pre.history) + 2
        /\ SubSeq(history, 1, Len(pre.history)) = pre.history
        /\ history[Len(history) - 1] = [role |-> "user", content |-> JStr(utterance)]
        /\ LastEntry = [role |-> "assistant", content |-> ret.message]

\* C4: every turn ends by returning (order, message); none raises.
C4_AlwaysReturns ==
    IsTurn => ret.kind = "return"

\* C5: when the cleaned reply is not valid JSON the turn returns the order
\* unchanged with the parse apology, and the last history entry is an
\* assistant entry holding that apology.
C5_ParseFailure ==
    (IsTurn /\ GotText /\ ~Reply.ok) =>
        /\ ret.kind = "return"
        /\ ret.order = pre.current_order
        /\ ret.message = JStr("Sorry, I had trouble processing that. Please try again.")
        /\ current_order = pre.current_order
        /\ LastEntry = [role |-> "assistant", content |-> ret.message]

\* prose in place of JSON, met with a non-empty order
C5_Witness ==
    /\ IsTurn
    /\ remote.content = JStr(<<Prose>>)
    /\ pre.current_order # EmptyDict
    /\ ret.order = pre.current_order

\* C6 as stated: a reply that is JSON but no mapping is installed as the
\* order (filtered to the menu) and answered with "Order updated.".
C6_NonMappingInstalled ==
    (IsTurn /\ ReplyIsJson /\ Reply.value.kind # "obj") =>
        /\ ret.kind = "return"
        /\ ret.message = JStr("Order updated.")
        /\ LastEntry = [role |-> "assistant", content |-> JStr("Order updated.")]
        /\ DOMAIN current_order \subseteq DOMAIN menu

\* C6 amended: a reply that is JSON but no mapping is taken as the new order,
\* has no items to filter, and the turn ends as a processing error: the order
\* is unchanged and the message returned and logged is the error apology.
C6_NonMappingRejected ==
    (IsTurn /\ ReplyIsJson /\ Reply.value.kind # "obj") =>
        /\ ret.kind = "return"
        /\ ret.order = pre.current_order
        /\ ret.message = JStr("Sorry, I encountered an error. Please try again.")
        /\ current_order = pre.current_order
        /\ LastEntry = [role |-> "assistant", content |-> ret.message]

\* a JSON list in reply, met with a non-empty order
C6_Witness ==
    /\ IsTurn /\ ReplyIsJson
    /\ Reply.value.kind = "list"
    /\ pre.current_order # EmptyDict
    /\ current_order = pre.current_order

\* C7: a reply that is a JSON mapping without an `order` key is the new order
\* as a whole: current_order becomes its menu-known entries, and the message
\* is "Order updated." unless the mapping has a `message` key.
C7_BareMappingIsOrder ==
    (IsTurn /\ ReplyIsJson /\ Reply.value.kind = "obj"
            /\ "order" \notin DOMAIN Reply.value.val) =>
        /\ current_order = MenuFiltered(Reply.value.val)
        /\ ret.kind = "return"
        /\ ret.order = current_order
        /\ ret.message = IF "message" \in DOMAIN Reply.value.val
                         THEN Reply.value.val["message"]
                         ELSE JStr("Order updated.")
        /\ LastEntry = [role |-> "assistant", content |-> ret.message]

\* {"Coke": 2, "Pizza": 1} in reply replaces a different order by {"Coke": 2}
C7_Witness ==
    /\ IsTurn /\ ReplyIsJson
    /\ Reply.value = JObj(("Coke" :> JNum(2)) @@ ("Pizza" :> JNum(1)))
    /\ pre.current_order # EmptyDict
    /\ current_order = ("Coke" :> JNum(2))
    /\ ret.message = JStr("Order updated.")

\* the request of a turn: the system prompt built from the menu and the order
\* as they stood before the turn, then the last min(3, len) history entries,
\* the last of them the new user entry
RequestShape ==
    IsTurn =>
        /\ Len(messages) = 1 + Min(3, Len(HistoryAtRequest))
        /\ messages[1] = [role |-> "system",
                          content |-> [kind |-> "prompt",
                                       val |-> [menu |-> menu,
                                                order |-> pre.current_order]]]
        /\ \A i \in 1..(Len(messages) - 1) :
              messages[Len(messages) - i + 1]
                  = HistoryAtRequest[Len(HistoryAtRequest) - i + 1]
        /\ messages[Len(messages)] = [role |-> "user", content |-> JStr(utterance)]

\* a turn keeps every history entry it found
NeverTruncated ==
    IsTurn =>
        /\ Len(history) > Len(pre.history)
        /\ SubSeq(history, 1, Len(pre.history)) = pre.history

\* C8: the request is the system prompt and the last min(3, len) history
\* entries, history is never truncated, and after n successive turns history
\* holds 2n entries (20 after 10).
C8_RequestAndHistory ==
    /\ RequestShape
    /\ NeverTruncated
    /\ Len(history) = 2 * turns

\* C9: clear_order empties current_order and history, leaves menu, api_key
\* and model alone, and a second call changes nothing more.
C9_ClearOrder ==
    /\ clear_order(Self).current_order = EmptyDict
    /\ clear_order(Self).history = << >>
    /\ clear_order(Self).menu = menu
    /\ clear_order(Self).api_key = api_key
    /\ clear_order(Self).model = model
    /\ clear_order(clear_order(Self)) = clear_order(Self)
    /\ op = "clear_order" =>
          /\ current_order = EmptyDict
          /\ history = << >>
          /\ menu = pre.menu /\ api_key = pre.api_key /\ model = pre.model
          /\ clear_order(Self) = Self

\* clear_order has emptied an order and a history that held something
C9_Witness ==
    /\ op = "clear_order"
    /\ pre.current_order # EmptyDict
    /\ Len(pre.history) >= 4
    /\ history = << >>

RECURSIVE SumOver(_, _, _)
SumOver(S, order, mn) ==
    IF S = {} THEN 0
    ELSE LET k == CHOOSE k \in S : TRUE
         IN (IF k \in DOMAIN mn THEN mn[k] ELSE 0) * order[k].val
                + SumOver(S \ {k}, order, mn)

\* C10: calculate_total returns the sum over current_order of price (0 for an
\* item the menu lacks) times quantity, whatever the iteration order, and
\* changes nothing.
C10_TotalIsSum ==
    op = "calculate_total" =>
        /\ ret.kind = "return"
        /\ ret.total = SumOver(DOMAIN current_order, current_order, menu)
        /\ Self = pre

\* {"Big Mac": 2, "Coke": 1, "Pizza": 2} at prices 5 and 2: the total is 12
C10_Witness ==
    /\ op = "calculate_total"
    /\ menu = DEFAULT_MENU
    /\ current_order = ("Big Mac" :> JNum(2)) @@ ("Coke" :> JNum(1)) @@ ("Pizza" :> JNum(2))
    /\ ret.total = 12

====
